---- MODULE Spec2Model ----
(***************************************************************************)
(* Model of expense_cli.py: a command-line expense tracker over three      *)
(* SQLite tables (users, budgets, expenses).                               *)
(*                                                                         *)
(* Conventions.                                                            *)
(*  - A text value (a date) is a sequence of one-character strings, so     *)
(*    that split("-"), int(), str(), substr() and f"{m:02d}" are computed  *)
(*    as the code computes them.                                           *)
(*  - An amount is an integer number of thousandths of the currency unit   *)
(*    (4 stands for 0.004); sums are exact.  A printed ":.2f" value is an  *)
(*    integer number of hundredths.                                        *)
(*  - An optional value is <<>> (None) or <<v>>.                           *)
(*  - A row's id is its position in its table: ids are AUTOINCREMENT and   *)
(*    no row is ever deleted.                                              *)
(***************************************************************************)
EXTENDS Integers, Sequences, FiniteSets, TLC

VARIABLES tables, users, budgets, expenses, out, sb

vars == <<tables, users, budgets, expenses, out, sb>>

-----------------------------------------------------------------------------
(* Bounds of the model *)

\* the rows the three tables hold together
MaxRows == 3

UserIds == {1, 2}
Categories == {"Food", "Transport"}
Years == {2025}
Months == {1, 12}
Names == {"Ishan"}
ExpenseAmounts == {4}
BudgetAmounts == {0, 6}
BudgetUserIds == {1}
BudgetCategories == {"Food"}
Procs == {1, 2}

None == <<>>
Some(v) == <<v>>

AlertPcts == {None, Some(50)}

D_2025_12_01 == <<"2","0","2","5","-","1","2","-","0","1">>
D_2025_1_05 == <<"2","0","2","5","-","1","-","0","5">>

\* values of --date: absent, or a text (argparse does not validate it)
DateArgs == {None, D_2025_1_05}

\* date.today().isoformat() of the day the command runs
Today == D_2025_12_01

\* the order in which GROUP BY category delivers its groups
CategoryOrder == <<"Food", "Transport">>

-----------------------------------------------------------------------------
(* Text and number helpers *)

DEFAULT_ALERT_PCT == 10

Digits == <<"0","1","2","3","4","5","6","7","8","9">>

IsDigit(c) == \E i \in 1..10 : Digits[i] = c

DigitVal(c) == (CHOOSE i \in 1..10 : Digits[i] = c) - 1

Max(a, b) == IF a >= b THEN a ELSE b

Min(a, b) == IF a <= b THEN a ELSE b

RECURSIVE Split(_)
\* s.split("-")
Split(s) ==
  IF s = <<>> THEN << <<>> >>
  ELSE LET rest == Split(Tail(s))
       IN IF Head(s) = "-" THEN << <<>> >> \o rest
          ELSE << <<Head(s)>> \o rest[1] >> \o Tail(rest)

\* int(s) succeeds (texts here hold digits and dashes only)
IntOk(s) == Len(s) > 0 /\ \A i \in 1..Len(s) : IsDigit(s[i])

RECURSIVE IntVal(_)
\* int(s)
IntVal(s) ==
  IF s = <<>> THEN 0
  ELSE IntVal(SubSeq(s, 1, Len(s) - 1)) * 10 + DigitVal(s[Len(s)])

RECURSIVE Str(_)
\* str(n), n >= 0
Str(n) == IF n < 10 THEN <<Digits[n + 1]>> ELSE Str(n \div 10) \o <<Digits[(n % 10) + 1]>>

\* f"{n:02d}", n >= 0
Fmt02(n) == IF n < 10 THEN <<"0">> \o Str(n) ELSE Str(n)

\* SQLite substr(s, start, len), start >= 1
Substr(s, start, len) ==
  IF start > Len(s) THEN <<>> ELSE SubSeq(s, start, Min(start + len - 1, Len(s)))

\* f"{x:.2f}" of an amount in thousandths: the nearest hundredth, ties to even
Fmt2f(x) ==
  LET a == IF x < 0 THEN 0 - x ELSE x
      q == a \div 10
      r == a % 10
      n == IF r < 5 THEN q
           ELSE IF r > 5 THEN q + 1
           ELSE IF q % 2 = 0 THEN q ELSE q + 1
  IN IF x < 0 THEN 0 - n ELSE n

-----------------------------------------------------------------------------
(* The tables *)

UserRow(name, email) == [name |-> name, email |-> email]

BudgetRow(user, category, year, month, amount, alert_pct) ==
  [user_id |-> user, category |-> category, year |-> year, month |-> month,
   amount |-> amount, alert_pct |-> alert_pct]

ExpenseRow(user, category, amount, note, d) ==
  [user_id |-> user, category |-> category, amount |-> amount, note |-> note, date |-> d]

\* BudgetIds with the user_id condition left out of the WHERE clause
BudgetIdsAnyUser(b, user, category, year, month) ==
  {i \in 1..Len(b) : /\ b[i].category = category
                     /\ b[i].year = year
                     /\ b[i].month = month}

\* SELECT id FROM budgets WHERE user_id=? AND category=? AND year=? AND month=?
BudgetIds(b, user, category, year, month) ==
  {i \in 1..Len(b) : /\ b[i].user_id = user
                     /\ b[i].category = category
                     /\ b[i].year = year
                     /\ b[i].month = month}

\* fetchone() of that query: the first row in id order, 0 when there is none
FetchBudgetId(b, user, category, year, month) ==
  LET ids == BudgetIds(b, user, category, year, month)
  IN IF ids = {} THEN 0 ELSE CHOOSE i \in ids : \A j \in ids : i <= j

\* UniqueViolated of a table declared without its UNIQUE constraint
UniqueNotEnforced(b, row) == FALSE

\* UNIQUE(user_id, category, year, month): the insert of row is rejected
UniqueViolated(b, row) ==
  BudgetIds(b, row.user_id, row.category, row.year, row.month) # {}

\* UpdateBudget that sets the amount and keeps the stored alert_pct
UpdateBudgetAmountOnly(b, id, amount, alert_pct) ==
  [i \in 1..Len(b) |-> IF i = id THEN [b[i] EXCEPT !.amount = amount] ELSE b[i]]

\* UPDATE budgets SET amount=?, alert_pct=? WHERE id=?
UpdateBudget(b, id, amount, alert_pct) ==
  [i \in 1..Len(b) |->
     IF i = id THEN [b[i] EXCEPT !.amount = amount, !.alert_pct = alert_pct] ELSE b[i]]

\* WHERE user_id=? AND substr(date,1,4)=? AND substr(date,6,2)=?
InMonth(row, user, year, month) ==
  /\ row.user_id = user
  /\ Substr(row.date, 1, 4) = Str(year)
  /\ Substr(row.date, 6, 2) = Fmt02(month)

RECURSIVE SumWhere(_, _, _, _, _)
\* SELECT COALESCE(SUM(amount),0) FROM expenses WHERE user_id=? AND category=?
\*   AND substr(date,1,4)=? AND substr(date,6,2)=?      (cats: the categories summed)
SumWhere(e, user, cats, year, month) ==
  IF e = <<>> THEN 0
  ELSE (IF InMonth(Head(e), user, year, month) /\ Head(e).category \in cats
        THEN Head(e).amount ELSE 0)
       + SumWhere(Tail(e), user, cats, year, month)

-----------------------------------------------------------------------------
(* The Budget Evaluator of add_expense *)

\* spent: the sum read back after the insert is committed
EvaluatorSpent(e, user, category, year, month) ==
  SumWhere(e, user, {category}, year, month)

\* Remaining without the floor at zero
RemainingUnfloored(budget_amount, spent) == budget_amount - spent

\* remaining = max(budget_amount - spent, 0.0)
Remaining(budget_amount, spent) == Max(budget_amount - spent, 0)

\* RemainingPct that takes an empty budget as fully remaining
RemainingPctFull(remaining, budget_amount) ==
  IF budget_amount > 0 THEN [num |-> remaining * 100, den |-> budget_amount]
  ELSE [num |-> 100, den |-> 1]

\* remaining_pct = (remaining / budget_amount) * 100 if budget_amount > 0 else 0.0,
\* as the exact fraction num/den with den > 0
RemainingPct(remaining, budget_amount) ==
  IF budget_amount > 0 THEN [num |-> remaining * 100, den |-> budget_amount]
  ELSE [num |-> 0, den |-> 1]

\* remaining_pct <= alert_pct
PctLeq(pct, alert_pct) == pct.num <= alert_pct * pct.den

\* b[1] if b[1] is not None else DEFAULT_ALERT_PCT
EffectiveAlertPct(stored) == IF stored = None THEN DEFAULT_ALERT_PCT ELSE stored[1]

\* Signals that tests the alert threshold before the exceeded condition
SignalsLowFirst(spent, budget_amount, remaining_pct, alert_pct) ==
  IF remaining_pct.num <= alert_pct * remaining_pct.den
  THEN <<"ALERT: Low budget remaining">>
  ELSE IF spent > budget_amount THEN <<"WARNING: Budget exceeded">>
  ELSE <<>>

\* the lines the evaluator prints once a budget is found
Signals(spent, budget_amount, remaining_pct, alert_pct) ==
  IF spent > budget_amount THEN <<"WARNING: Budget exceeded">>
  ELSE IF PctLeq(remaining_pct, alert_pct) THEN <<"ALERT: Low budget remaining">>
  ELSE <<>>

\* what add_expense prints and computes after the expense is committed into e
Evaluate(e, b, user, category, d) ==
  LET parts == Split(d)
  IN IF ~IntOk(parts[1]) THEN [cmd |-> "add-expense", error |-> "ValueError", eid |-> Len(e)]
     ELSE IF Len(parts) < 2 THEN [cmd |-> "add-expense", error |-> "IndexError", eid |-> Len(e)]
     ELSE IF ~IntOk(parts[2]) THEN [cmd |-> "add-expense", error |-> "ValueError", eid |-> Len(e)]
     ELSE
       LET year == IntVal(parts[1])
           month == IntVal(parts[2])
           id == FetchBudgetId(b, user, category, year, month)
       IN IF id = 0
          THEN [cmd |-> "add-expense", error |-> "", eid |-> Len(e),
                year |-> year, month |-> month, found |-> FALSE,
                printed |-> <<"Added expense", "No budget set">>]
          ELSE
            LET budget_amount == b[id].amount
                alert_pct == EffectiveAlertPct(b[id].alert_pct)
                spent == EvaluatorSpent(e, user, category, year, month)
                remaining == Remaining(budget_amount, spent)
                remaining_pct == RemainingPct(remaining, budget_amount)
            IN [cmd |-> "add-expense", error |-> "", eid |-> Len(e),
                year |-> year, month |-> month, found |-> TRUE,
                budget_id |-> id, budget_amount |-> budget_amount, alert_pct |-> alert_pct,
                spent |-> spent, remaining |-> remaining, remaining_pct |-> remaining_pct,
                printed |-> <<"Added expense">>
                            \o Signals(spent, budget_amount, remaining_pct, alert_pct)]

-----------------------------------------------------------------------------
(* The Reporting Aggregator *)

RECURSIVE ReportTotalAllMonths(_, _, _, _)
\* ReportTotal without the conditions on the date
ReportTotalAllMonths(e, user, year, month) ==
  IF e = <<>> THEN 0
  ELSE (IF Head(e).user_id = user THEN Head(e).amount ELSE 0)
       + ReportTotalAllMonths(Tail(e), user, year, month)

\* report_total: total, before it is printed
ReportTotal(e, user, year, month) == SumWhere(e, user, Categories, year, month)

\* the categories of the GROUP BY result
SpentCats(e, user, year, month) ==
  {e[i].category : i \in {j \in 1..Len(e) : InMonth(e[j], user, year, month)}}

RECURSIVE GroupRows(_, _, _, _, _)
\* rows: <<category, SUM(amount)>> per group, over the categories order[1..]
GroupRows(e, order, user, year, month) ==
  IF order = <<>> THEN <<>>
  ELSE (IF Head(order) \in SpentCats(e, user, year, month)
        THEN << <<Head(order), SumWhere(e, user, {Head(order)}, year, month)>> >>
        ELSE <<>>)
       \o GroupRows(e, Tail(order), user, year, month)

\* the line printed for one group: its budget is looked up by (user, cat, year, month)
SpentLine(b, row, user, year, month) ==
  LET id == FetchBudgetId(b, user, row[1], year, month)
  IN [category |-> row[1], spent |-> Fmt2f(row[2]),
      budget |-> IF id = 0 THEN None ELSE Some(Fmt2f(b[id].amount))]

RECURSIVE UnspentLinesAll(_, _, _, _, _)
\* UnspentLines without the test against spent_cats
UnspentLinesAll(b, spent_cats, user, year, month) ==
  IF b = <<>> THEN <<>>
  ELSE (IF /\ Head(b).user_id = user
           /\ Head(b).year = year
           /\ Head(b).month = month
        THEN <<[category |-> Head(b).category, spent |-> 0,
                budget |-> Some(Fmt2f(Head(b).amount))]>>
        ELSE <<>>)
       \o UnspentLinesAll(Tail(b), spent_cats, user, year, month)

RECURSIVE UnspentLines(_, _, _, _, _)
\* "Also show budgets that had no spending", in id order
UnspentLines(b, spent_cats, user, year, month) ==
  IF b = <<>> THEN <<>>
  ELSE (IF /\ Head(b).user_id = user
           /\ Head(b).year = year
           /\ Head(b).month = month
           /\ Head(b).category \notin spent_cats
        THEN <<[category |-> Head(b).category, spent |-> 0,
                budget |-> Some(Fmt2f(Head(b).amount))]>>
        ELSE <<>>)
       \o UnspentLines(Tail(b), spent_cats, user, year, month)

\* report_by_category: the lines printed after the heading
ReportByCategory(e, b, user, year, month) ==
  LET rows == GroupRows(e, CategoryOrder, user, year, month)
      spent_cats == {rows[i][1] : i \in 1..Len(rows)}
  IN [i \in 1..Len(rows) |-> SpentLine(b, rows[i], user, year, month)]
     \o UnspentLines(b, spent_cats, user, year, month)

-----------------------------------------------------------------------------
(* The commands *)

Idle == [pc |-> "idle"]

Rows == Len(users) + Len(budgets) + Len(expenses)

Init ==
  /\ tables = FALSE
  /\ users = <<>>
  /\ budgets = <<>>
  /\ expenses = <<>>
  /\ out = [cmd |-> "none", error |-> ""]
  /\ sb = [p \in Procs |-> Idle]

\* a statement on a table that init never created
NoTable(cmd) == [cmd |-> cmd, error |-> "OperationalError"]

init_db ==
  /\ tables' = TRUE
  /\ out' = [cmd |-> "init", error |-> ""]
  /\ UNCHANGED <<users, budgets, expenses, sb>>

add_user(name, email) ==
  /\ Rows < MaxRows
  /\ IF ~tables
     THEN /\ out' = NoTable("add-user")
          /\ UNCHANGED users
     ELSE /\ users' = Append(users, UserRow(name, email))
          /\ out' = [cmd |-> "add-user", error |-> "", uid |-> Len(users) + 1]
  /\ UNCHANGED <<tables, budgets, expenses, sb>>

\* the write of set_budget and its commit, given the row the SELECT returned
SetBudgetWrite(b, id, user, category, year, month, amount, alert_pct) ==
  LET row == BudgetRow(user, category, year, month, amount, alert_pct)
      args == [user |-> user, category |-> category, year |-> year, month |-> month,
               amount |-> amount, alert_pct |-> alert_pct]
  IN IF id # 0
     THEN [budgets |-> UpdateBudget(b, id, amount, alert_pct),
           out |-> [cmd |-> "set-budget", error |-> "", printed |-> "Updated budget",
                    id |-> id, args |-> args]]
     ELSE IF UniqueViolated(b, row)
     THEN [budgets |-> b,
           out |-> [cmd |-> "set-budget", error |-> "IntegrityError", args |-> args]]
     ELSE [budgets |-> Append(b, row),
           out |-> [cmd |-> "set-budget", error |-> "", printed |-> "Inserted budget",
                    id |-> Len(b) + 1, args |-> args]]

set_budget(user, category, year, month, amount, alert_pct) ==
  /\ IF ~tables
     THEN /\ out' = NoTable("set-budget")
          /\ UNCHANGED budgets
     ELSE LET id == FetchBudgetId(budgets, user, category, year, month)
              w == SetBudgetWrite(budgets, id, user, category, year, month, amount, alert_pct)
          IN /\ id = 0 => Rows < MaxRows
             /\ budgets' = w.budgets
             /\ out' = w.out
  /\ UNCHANGED <<tables, users, expenses, sb>>

\* add_expense written as an upsert: an expense of the same user, category and
\* date is overwritten instead of a row being added
add_expense_upsert(user, category, amount, note, date) ==
  /\ Rows < MaxRows
  /\ IF ~tables
     THEN /\ out' = NoTable("add-expense")
          /\ UNCHANGED expenses
     ELSE LET d == IF date = None THEN Today ELSE date
              old == {i \in 1..Len(expenses) : /\ expenses[i].user_id = user
                                               /\ expenses[i].category = category
                                               /\ expenses[i].date = d}
          IN /\ expenses' =
                  IF old = {} THEN Append(expenses, ExpenseRow(user, category, amount, note, d))
                  ELSE [i \in 1..Len(expenses) |->
                          IF i \in old THEN [expenses[i] EXCEPT !.amount = @ + amount]
                          ELSE expenses[i]]
             /\ out' = Evaluate(expenses', budgets, user, category, d)
  /\ UNCHANGED <<tables, users, budgets, sb>>

add_expense(user, category, amount, note, date) ==
  /\ Rows < MaxRows
  /\ IF ~tables
     THEN /\ out' = NoTable("add-expense")
          /\ UNCHANGED expenses
     ELSE LET d == IF date = None THEN Today ELSE date
          IN /\ expenses' = Append(expenses, ExpenseRow(user, category, amount, note, d))
             /\ out' = Evaluate(expenses', budgets, user, category, d)
  /\ UNCHANGED <<tables, users, budgets, sb>>

report_total(user, year, month) ==
  /\ out' = IF ~tables THEN NoTable("report-total")
            ELSE [cmd |-> "report-total", error |-> "", user |-> user, year |-> year,
                  month |-> month, total |-> Fmt2f(ReportTotal(expenses, user, year, month))]
  /\ UNCHANGED <<tables, users, budgets, expenses, sb>>

report_by_category(user, year, month) ==
  /\ out' = IF ~tables THEN NoTable("report-by-category")
            ELSE [cmd |-> "report-by-category", error |-> "", user |-> user, year |-> year,
                  month |-> month,
                  lines |-> ReportByCategory(expenses, budgets, user, year, month)]
  /\ UNCHANGED <<tables, users, budgets, expenses, sb>>

\* set_budget run by process p up to the fetchone() of its SELECT
sb_select(p, user, category, year, month, amount, alert_pct) ==
  /\ tables
  /\ sb[p] = Idle
  /\ sb' = [sb EXCEPT ![p] =
              [pc |-> "selected", user |-> user, category |-> category, year |-> year,
               month |-> month, amount |-> amount, alert_pct |-> alert_pct,
               id |-> FetchBudgetId(budgets, user, category, year, month)]]
  /\ UNCHANGED <<tables, users, budgets, expenses, out>>

\* the rest of set_budget run by process p: its UPDATE or INSERT, and the commit
sb_write(p) ==
  /\ sb[p].pc = "selected"
  /\ LET a == sb[p]
         w == SetBudgetWrite(budgets, a.id, a.user, a.category, a.year, a.month,
                             a.amount, a.alert_pct)
     IN /\ Len(w.budgets) > Len(budgets) => Rows < MaxRows
        /\ budgets' = w.budgets
        /\ out' = w.out
  /\ sb' = [sb EXCEPT ![p] = Idle]
  /\ UNCHANGED <<tables, users, expenses>>

Next ==
  \/ init_db
  \/ \E name \in Names : add_user(name, None)
  \/ \E user \in BudgetUserIds, category \in BudgetCategories, year \in Years, month \in Months,
        amount \in BudgetAmounts, alert_pct \in AlertPcts :
       set_budget(user, category, year, month, amount, alert_pct)
  \/ \E user \in UserIds, category \in Categories, amount \in ExpenseAmounts, date \in DateArgs :
       add_expense(user, category, amount, "", date)
  \/ \E user \in UserIds, year \in Years, month \in Months : report_total(user, year, month)
  \/ \E user \in UserIds, year \in Years, month \in Months : report_by_category(user, year, month)

Spec == Init /\ [][Next]_vars

\* two set-budget invocations whose statements interleave
NextRace ==
  \/ init_db
  \/ \E p \in Procs, user \in BudgetUserIds, category \in BudgetCategories, year \in Years,
        month \in Months, amount \in BudgetAmounts, alert_pct \in AlertPcts :
       sb_select(p, user, category, year, month, amount, alert_pct)
  \/ \E p \in Procs : sb_write(p)

SpecRace == Init /\ [][NextRace]_vars

-----------------------------------------------------------------------------
(* Properties *)

ReportUsers == UserIds
ReportYears == Years
ReportMonths == Months

\* the rows of Budgets with a given key
RowsOfKey(user, category, year, month) ==
  {i \in 1..Len(budgets) : <<budgets[i].user_id, budgets[i].category,
                             budgets[i].year, budgets[i].month>>
                           = <<user, category, year, month>>}

AtMostOneRowPerKey ==
  \A i, j \in 1..Len(budgets) :
    <<budgets[i].user_id, budgets[i].category, budgets[i].year, budgets[i].month>>
      = <<budgets[j].user_id, budgets[j].category, budgets[j].year, budgets[j].month>>
    => i = j

\* the last command was a set-budget that reached the budgets table
SetBudgetDone == out.cmd = "set-budget" /\ out.error # "OperationalError"

\* C1: Budgets holds at most one row per (user_id, category, year, month), and
\* right after a set-budget there is exactly one row for its key, carrying the
\* amount and alert_pct of that call (alert_pct unset when the call gave none).
C1_UpsertKeepsOneRow ==
  /\ AtMostOneRowPerKey
  /\ SetBudgetDone =>
       LET a == out.args
           ids == RowsOfKey(a.user, a.category, a.year, a.month)
       IN /\ Cardinality(ids) = 1
          /\ \A i \in ids : /\ budgets[i].amount = a.amount
                            /\ budgets[i].alert_pct = a.alert_pct

\* C1 witness: a second set-budget for a key updated the row, to no alert_pct
C1_Witness ==
  /\ SetBudgetDone
  /\ out.error = ""
  /\ out.printed = "Updated budget"
  /\ out.args.alert_pct = None
  /\ Len(budgets) = 2

\* the last command was an add-expense whose evaluator found a budget
Evaluated == out.cmd = "add-expense" /\ out.error = "" /\ out.found

\* the expense the last add-expense recorded
NewExpense == expenses[out.eid]

Exceeded == "WARNING: Budget exceeded"
LowRemaining == "ALERT: Low budget remaining"

\* the signals of the last add-expense: what it printed after "Added expense"
Emitted == Tail(out.printed)

StoredAlertPct ==
  IF budgets[out.budget_id].alert_pct = None THEN 10 ELSE budgets[out.budget_id].alert_pct[1]

\* C3: with a budget found, add-expense emits at most one signal: "exceeded"
\* exactly when spent > budget_amount, otherwise "low remaining" exactly when
\* remaining_pct <= alert_pct (the stored value, or 10 when unset), else none.
C3_SignalPriority ==
  Evaluated =>
    LET over == out.spent > budgets[out.budget_id].amount
        low == out.remaining_pct.num <= StoredAlertPct * out.remaining_pct.den
    IN /\ Len(Emitted) <= 1
       /\ (Emitted = <<Exceeded>>) <=> over
       /\ (Emitted = <<LowRemaining>>) <=> (~over /\ low)
       /\ (Emitted = <<>>) <=> (~over /\ ~low)

\* C3 witness: spent > budget_amount while remaining_pct <= alert_pct as well
C3_Witness ==
  /\ Evaluated
  /\ out.spent > out.budget_amount
  /\ out.budget_amount > 0
  /\ out.remaining_pct.num <= out.alert_pct * out.remaining_pct.den
  /\ Emitted = <<Exceeded>>

\* C4: the evaluator's remaining is max(budget_amount - spent, 0), never negative.
C4_RemainingFloored ==
  Evaluated =>
    LET diff == budgets[out.budget_id].amount - out.spent
    IN /\ out.remaining >= 0
       /\ out.remaining = (IF diff > 0 THEN diff ELSE 0)

\* C4 witness: spent exceeds a positive budget, so budget_amount - spent < 0
C4_Witness ==
  /\ Evaluated
  /\ out.budget_amount > 0
  /\ out.spent - out.budget_amount > 0
  /\ out.remaining = 0

C8_NoBudgetIsNoError ==
  (/\ out.cmd = "add-expense"
   /\ out.error = ""
   /\ RowsOfKey(NewExpense.user_id, NewExpense.category, out.year, out.month) = {})
  => /\ out.eid = Len(expenses)
     /\ out.printed = <<"Added expense", "No budget set">>

\* C8 witness: an expense of a user without budget, while another user has one
C8_Witness ==
  /\ out.cmd = "add-expense"
  /\ out.error = ""
  /\ ~out.found
  /\ \E i \in 1..Len(budgets) :
       /\ budgets[i].category = NewExpense.category
       /\ budgets[i].year = out.year
       /\ budgets[i].month = out.month

RECURSIVE SumField(_, _)
\* the sum of field f (1: a row's second component, 2: a line's spent value)
SumField(seq, f) ==
  IF seq = <<>> THEN 0
  ELSE (IF f = 1 THEN Head(seq)[2] ELSE Head(seq).spent) + SumField(Tail(seq), f)

\* C2 as stated: the total report-total prints equals the sum of the spent
\* values report-by-category prints, for every user, year and month.
C2_PrintedTotalIsSumOfPrintedLines ==
  \A user \in ReportUsers, year \in ReportYears, month \in ReportMonths :
    Fmt2f(ReportTotal(expenses, user, year, month))
      = SumField(ReportByCategory(expenses, budgets, user, year, month), 2)

\* C2 amended: the total report-total prints is the two-decimal rounding of the
\* sum of the per-category sums report-by-category computes (each of which it
\* prints rounded on its own line).
C2_TotalIsSumOfCategorySums ==
  \A user \in ReportUsers, year \in ReportYears, month \in ReportMonths :
    Fmt2f(ReportTotal(expenses, user, year, month))
      = Fmt2f(SumField(GroupRows(expenses, CategoryOrder, user, year, month), 1))

\* C2 witness: a user with spending in two categories in one month, and with
\* spending of another user in that month
C2_Witness ==
  \E user \in ReportUsers, year \in ReportYears, month \in ReportMonths :
    /\ Len(GroupRows(expenses, CategoryOrder, user, year, month)) = 2
    /\ ReportTotal(expenses, user, year, month) > 0
    /\ \E other \in ReportUsers \ {user} : ReportTotal(expenses, other, year, month) > 0

\* text s begins with text t
StartsWith(s, t) == Len(s) >= Len(t) /\ SubSeq(s, 1, Len(t)) = t

\* the Expenses of a user dated in year-month ("YYYY-MM-...")
MatchingExpenses(user, year, month) ==
  {i \in 1..Len(expenses) :
     /\ expenses[i].user_id = user
     /\ StartsWith(expenses[i].date, Str(year) \o <<"-">> \o Fmt02(month))}

\* the Budgets of a user for year and month
MatchingBudgets(user, year, month) ==
  {i \in 1..Len(budgets) :
     budgets[i].user_id = user /\ budgets[i].year = year /\ budgets[i].month = month}

RECURSIVE SumAmounts(_)
\* the sum of the amounts of a set of Expenses
SumAmounts(ids) ==
  IF ids = {} THEN 0
  ELSE LET i == CHOOSE k \in ids : TRUE
       IN expenses[i].amount + SumAmounts(ids \ {i})

\* C5: report-by-category prints exactly one line per category that has a
\* matching Expense or a matching Budget; a category with expenses shows their
\* sum and the budget amount if a Budget exists; a Budget without matching
\* expense shows spent 0.00 and its amount; no category appears twice.
C5_OneLinePerCategory ==
  \A user \in ReportUsers, year \in ReportYears, month \in ReportMonths :
    LET lines == ReportByCategory(expenses, budgets, user, year, month)
        es == MatchingExpenses(user, year, month)
        bs == MatchingBudgets(user, year, month)
        cats == {expenses[i].category : i \in es} \cup {budgets[i].category : i \in bs}
    IN /\ \A i, j \in 1..Len(lines) : lines[i].category = lines[j].category => i = j
       /\ {lines[i].category : i \in 1..Len(lines)} = cats
       /\ \A i \in 1..Len(lines) :
            LET ce == {k \in es : expenses[k].category = lines[i].category}
                cb == {k \in bs : budgets[k].category = lines[i].category}
            IN /\ lines[i].spent = Fmt2f(SumAmounts(ce))
               /\ cb = {} => lines[i].budget = None
               /\ \A k \in cb : lines[i].budget = Some(Fmt2f(budgets[k].amount))

\* C5 witness: one report holding a line of a category with expenses and a
\* line of a budget whose category has no matching expense
C5_Witness ==
  \E user \in ReportUsers, year \in ReportYears, month \in ReportMonths :
    LET lines == ReportByCategory(expenses, budgets, user, year, month)
        spentCats == {expenses[k].category : k \in MatchingExpenses(user, year, month)}
    IN /\ Len(lines) = 2
       /\ \E i \in 1..2 : lines[i].category \in spentCats
       /\ \E i \in 1..2 : /\ lines[i].category \notin spentCats
                          /\ lines[i].spent = 0
                          /\ lines[i].budget # None

\* year and month of a stored date, read as add_expense reads them
YearOf(d) == IntVal(Split(d)[1])
MonthOf(d) == IntVal(Split(d)[2])

\* C6: for every add-expense that finds a Budget, the evaluator's spent is the
\* sum of the amounts of all Expenses of the same user and category dated in
\* the year and month of the new expense's date, the new expense included.
C6_SpentIncludesNewExpense ==
  Evaluated =>
    LET same == {i \in 1..Len(expenses) :
                   /\ expenses[i].user_id = NewExpense.user_id
                   /\ expenses[i].category = NewExpense.category
                   /\ YearOf(expenses[i].date) = YearOf(NewExpense.date)
                   /\ MonthOf(expenses[i].date) = MonthOf(NewExpense.date)}
    IN /\ out.eid \in same
       /\ out.spent = SumAmounts(same)

\* C7: add-expense adds exactly one Expense row and leaves every earlier
\* Expense row, every Budget row and every User row as they were; no other
\* command changes the Expenses.
C7_Step ==
  /\ Len(expenses') >= Len(expenses)
  /\ SubSeq(expenses', 1, Len(expenses)) = expenses
  /\ (out'.cmd = "add-expense" /\ out'.error # "OperationalError")
       => /\ Len(expenses') = Len(expenses) + 1
          /\ budgets' = budgets
          /\ users' = users
          /\ tables' = tables
  /\ out'.cmd # "add-expense" => expenses' = expenses

C7_ExpensesAppendOnly == [][C7_Step]_vars

\* C7 witness: an add-expense that ran its evaluator with earlier expenses and
\* a budget in the store
C7_Witness ==
  /\ Evaluated
  /\ Len(expenses) >= 2
  /\ Len(budgets) >= 1

\* C10: when two set-budget invocations for one key both run their SELECT
\* before either writes, the store never holds two rows for the key: the
\* UNIQUE constraint makes the second INSERT fail.
C10_RaceKeepsOneRow ==
  /\ \A user \in BudgetUserIds, category \in BudgetCategories, year \in Years, month \in Months :
       Cardinality(RowsOfKey(user, category, year, month)) <= 1
  /\ (out.cmd = "set-budget" /\ out.error = "IntegrityError") =>
       Cardinality(RowsOfKey(out.args.user, out.args.category,
                             out.args.year, out.args.month)) = 1

\* C10 witness: the INSERT of the second of two interleaved invocations failed
C10_Witness ==
  /\ out.cmd = "set-budget"
  /\ out.error = "IntegrityError"
  /\ \A p \in Procs : sb[p] = Idle

====
